---- MODULE Spec2Model ----
(***************************************************************************)
(* Model of gql-types-generator: the type reference resolver, the field    *)
(* path navigator, the entity extractor, the operation projector and the   *)
(* top-level declaration sorter of src/src/utils/misc.ts.                  *)
(*                                                                         *)
(* Strings are sequences of one-character strings, so that concatenation,  *)
(* split('.') and the regular expression of toCamelCase are computed       *)
(* character by character as the code computes them.                       *)
(***************************************************************************)
EXTENDS Integers, Sequences, FiniteSets, TLC

VARIABLES
  typeNode,        \* resolver: the TypeNode (syntax-tree form) under test
  nodeResult,      \* resolver: result of getTypeNodeDefinition(typeNode)
  ioResult,        \* resolver: result of getIOTypeDefinition(typeFromAST(typeNode))
  rootName,        \* navigator: name of the root object type handed to getIn
  path,            \* navigator: the dotted path handed to getIn
  getInResult,     \* navigator: what getIn returned or threw
  namedType,       \* extractor: the GraphQLNamedType handed to the parser
  entity,          \* extractor: the record the parser returned
  schema,          \* projector: the GraphQLSchema (which roots are configured)
  operationNode,   \* projector: the OperationDefinitionNode
  operation,       \* projector: what parseOperationDefinitionNode returned or threw
  display,         \* sorter: the DisplayType handed to getSorter
  types,           \* sorter: the list of named types to order
  sorted,          \* sorter: the list as types.sort(getSorter(display)) left it
  jobs,            \* batch: the operations and named types of one run
  pc,              \* batch: how far the call made for each job has come
  frame,           \* batch: the local variables of the call made for each job
  records,         \* batch: what the call made for each job returned or threw
  heap             \* batch: the contents of every array allocated so far

vars == <<typeNode, nodeResult, ioResult, rootName, path, getInResult,
          namedType, entity, schema, operationNode, operation,
          display, types, sorted, jobs, pc, frame, records, heap>>

resolverVars == <<typeNode, nodeResult, ioResult>>
navigatorVars == <<rootName, path, getInResult>>
extractorVars == <<namedType, entity>>
projectorVars == <<schema, operationNode, operation>>
sorterVars == <<display, types, sorted>>
batchVars == <<jobs, pc, frame, records, heap>>

(***************************************************************************)
(* Bounds of the model.                                                    *)
(***************************************************************************)
MaxDepth == 3      \* wrapper layers (List / NonNull) over a named leaf
MaxPath == 3       \* segments of a dotted path
MaxFields == 2     \* fields of a generated entity type
MaxSel == 2        \* selections of the root selection set of an operation
MaxVars == 2       \* variable definitions of an operation
MaxTypes == 3      \* named types handed to the sorter
MaxStart == 1      \* largest source start position of a declaration
MaxJobs == 2       \* operations and named types of a batch

\* Values standing for JavaScript's undefined / null and a pending call.
Null == [js |-> "null"]
Pending == [js |-> "pending"]

(***************************************************************************)
(* Characters and strings.                                                 *)
(***************************************************************************)
LowerChars == <<"a","b","c","d","e","f","g","h","i","j","k","l","m",
                "n","o","p","q","r","s","t","u","v","w","x","y","z">>
UpperChars == <<"A","B","C","D","E","F","G","H","I","J","K","L","M",
                "N","O","P","Q","R","S","T","U","V","W","X","Y","Z">>
DigitChars == <<"0","1","2","3","4","5","6","7","8","9">>

Range(s) == {s[i] : i \in DOMAIN s}

\* String.prototype.toUpperCase on one character
toUpperCase(c) ==
  IF \E i \in DOMAIN LowerChars : LowerChars[i] = c
  THEN UpperChars[CHOOSE i \in DOMAIN LowerChars : LowerChars[i] = c]
  ELSE c

\* the character class [\da-z] under the i flag
IsAlnum(c) == c \in Range(LowerChars) \cup Range(UpperChars) \cup Range(DigitChars)

\* Array.prototype.includes
Includes(arr, x) == \E i \in DOMAIN arr : arr[i] = x

\* Bind(v, F): F applied to the value of v, with v evaluated exactly once
Bind(v, F(_)) == CHOOSE y \in {F(x) : x \in {v}} : TRUE

\* String.prototype.split('.'): the segments between the dots
RECURSIVE SplitFrom(_, _, _)
SplitFrom(s, i, cur) ==
  IF i > Len(s) THEN <<cur>>
  ELSE IF s[i] = "." THEN <<cur>> \o SplitFrom(s, i + 1, <<>>)
  ELSE SplitFrom(s, i + 1, Append(cur, s[i]))

SplitDots(s) == SplitFrom(s, 1, <<>>)

\* Array.prototype.join('.')
RECURSIVE JoinDots(_)
JoinDots(parts) ==
  IF Len(parts) = 0 THEN <<>>
  ELSE IF Len(parts) = 1 THEN parts[1]
  ELSE parts[1] \o <<".">> \o JoinDots(Tail(parts))

(***************************************************************************)
(* Names used by the schema of the repository and by the inputs.           *)
(***************************************************************************)
sBoolean == <<"B","o","o","l","e","a","n">>
sFloat == <<"F","l","o","a","t">>
sString == <<"S","t","r","i","n","g">>
sInt == <<"I","n","t">>
sID == <<"I","D">>
sDateTime == <<"D","a","t","e","T","i","m","e">>
sCATEGORY == <<"C","A","T","E","G","O","R","Y">>
sPostAuthor == <<"P","o","s","t","A","u","t","h","o","r">>
sPost == <<"P","o","s","t">>
sPostedPost == <<"P","o","s","t","e","d","P","o","s","t">>
sModeratedPost == <<"M","o","d","e","r","a","t","e","d","P","o","s","t">>
sAnyPost == <<"A","n","y","P","o","s","t">>
sPostsInput == <<"P","o","s","t","s","I","n","p","u","t">>
sPostData == <<"P","o","s","t","D","a","t","a">>
sQuery == <<"Q","u","e","r","y">>
sMutation == <<"M","u","t","a","t","i","o","n">>
sSubscription == <<"S","u","b","s","c","r","i","p","t","i","o","n">>

s_name == <<"n","a","m","e">>
s_registeredAt == <<"r","e","g","i","s","t","e","r","e","d","A","t">>
s_bannedAt == <<"b","a","n","n","e","d","A","t">>
s_id == <<"i","d">>
s_author == <<"a","u","t","h","o","r">>
s_text == <<"t","e","x","t">>
s_category == <<"c","a","t","e","g","o","r","y">>
s_createdAt == <<"c","r","e","a","t","e","d","A","t">>
s_updatedAt == <<"u","p","d","a","t","e","d","A","t">>
s_deletedAt == <<"d","e","l","e","t","e","d","A","t">>
s_postedAt == <<"p","o","s","t","e","d","A","t">>
s_startedModerationAt == <<"s","t","a","r","t","e","d","M","o","d","e","r","a","t","i","o","n","A","t">>
s_limit == <<"l","i","m","i","t">>
s_offset == <<"o","f","f","s","e","t">>
s_content == <<"c","o","n","t","e","n","t">>
s_post == <<"p","o","s","t">>
s_posts == <<"p","o","s","t","s">>
s_input == <<"i","n","p","u","t">>
s_updatePost == <<"u","p","d","a","t","e","P","o","s","t">>
s_deletePost == <<"d","e","l","e","t","e","P","o","s","t">>
s_createPost == <<"c","r","e","a","t","e","P","o","s","t">>
s_data == <<"d","a","t","a">>
s_newPost == <<"n","e","w","P","o","s","t">>

\* An object type added to the inputs: it has what the schema document lacks,
\* fields of interface, union and nested-list type and a root-level leaf of a
\* custom type.
\*   type Feed { latest: Post  any: AnyPost  pages: [[PostedPost!]]
\*               when: DateTime  until: DateTime! }
sFeed == <<"F","e","e","d">>
s_latest == <<"l","a","t","e","s","t">>
s_any == <<"a","n","y">>
s_pages == <<"p","a","g","e","s">>
s_when == <<"w","h","e","n">>
s_until == <<"u","n","t","i","l">>

(***************************************************************************)
(* Scalar map (misc.ts 22-103).                                            *)
(***************************************************************************)
gqlScalarTypesMap ==
  [n \in {sBoolean, sFloat, sString, sInt, sID} |->
     CASE n = sBoolean -> <<"b","o","o","l","e","a","n">>
       [] n = sFloat -> <<"n","u","m","b","e","r">>
       [] n = sString -> <<"s","t","r","i","n","g">>
       [] n = sInt -> <<"n","u","m","b","e","r">>
       [] n = sID -> <<"a","n","y">>]

gqlScalarTypes == DOMAIN gqlScalarTypesMap

isGQLScalarType(value) == value \in gqlScalarTypes

transpileGQLTypeName(value) ==
  IF isGQLScalarType(value) THEN gqlScalarTypesMap[value] ELSE value

makeNullable(type) == type \o <<" ","|"," ","n","u","l","l">>

(***************************************************************************)
(* The named-type graph.  A type reference in resolved-schema-object form  *)
(* is a GraphQLNonNull or GraphQLList around another reference, or a       *)
(* handle (class, name) of a named type; the named type's own record is    *)
(* looked up by name, which keeps the cyclic graph a finite value.         *)
(***************************************************************************)
BuiltInScalars == {sBoolean, sFloat, sString, sInt, sID}

\* class of the named types of the schema document
TypeClass(name) ==
  CASE name \in BuiltInScalars \cup {sDateTime} -> "GraphQLScalarType"
    [] name = sCATEGORY -> "GraphQLEnumType"
    [] name = sPost -> "GraphQLInterfaceType"
    [] name = sAnyPost -> "GraphQLUnionType"
    [] name \in {sPostsInput, sPostData} -> "GraphQLInputObjectType"
    [] OTHER -> "GraphQLObjectType"

Named(name) == [class |-> TypeClass(name), name |-> name]
NonNull(t) == [class |-> "GraphQLNonNull", ofType |-> t]
List(t) == [class |-> "GraphQLList", ofType |-> t]

isNonNullType(type) == type.class = "GraphQLNonNull"
isListType(type) == type.class = "GraphQLList"
isWrappingType(type) == isNonNullType(type) \/ isListType(type)
isObjectType(type) == type.class = "GraphQLObjectType"
isInterfaceType(type) == type.class = "GraphQLInterfaceType"
isScalarType(type) == type.class = "GraphQLScalarType"
isUnionType(type) == type.class = "GraphQLUnionType"
isEnumType(type) == type.class = "GraphQLEnumType"

Field(name, description, type, args) ==
  [name |-> name, description |-> description, type |-> type, args |-> args]
Arg(name, type) == [name |-> name, description |-> Null, type |-> type]

AstNode(kind, start) == [kind |-> kind, loc |-> [start |-> start]]

PostFields ==
  << Field(s_id, "Post id", NonNull(Named(sID)), <<>>),
     Field(s_author, "Post author", NonNull(Named(sPostAuthor)), <<>>),
     Field(s_text, "Post content", NonNull(Named(sString)), <<>>),
     Field(s_category, "Post category", NonNull(Named(sCATEGORY)), <<>>),
     Field(s_createdAt, "Date when post was created",
           NonNull(Named(sDateTime)), <<>>),
     Field(s_updatedAt, "Date when post was updated", Named(sDateTime), <<>>),
     Field(s_deletedAt, "Date when post was deleted", Named(sDateTime), <<>>) >>

\* the field map of each named type, in declared order (getFields())
FieldsOf(name) ==
  CASE name = sPostAuthor ->
         << Field(s_name, "User full name", NonNull(Named(sString)), <<>>),
            Field(s_registeredAt, "Date when user was registered",
                  NonNull(Named(sDateTime)), <<>>),
            Field(s_bannedAt, "Date when user was banned",
                  Named(sDateTime), <<>>) >>
    [] name = sPost -> PostFields
    [] name = sPostedPost ->
         Append(PostFields,
                Field(s_postedAt, "Date when post was posted",
                      NonNull(Named(sDateTime)), <<>>))
    [] name = sModeratedPost ->
         Append(PostFields,
                Field(s_startedModerationAt, "Date when moderation started",
                      NonNull(Named(sDateTime)), <<>>))
    [] name = sPostsInput ->
         << Field(s_limit, Null, NonNull(Named(sInt)), <<>>),
            Field(s_offset, Null, NonNull(Named(sInt)), <<>>) >>
    [] name = sPostData ->
         << Field(s_content, "Post text", NonNull(Named(sString)), <<>>),
            Field(s_category, "Post category", NonNull(Named(sCATEGORY)),
                  <<>>) >>
    [] name = sQuery ->
         << Field(s_post, "Get certain post", Named(sPostedPost),
                  << Arg(s_id, NonNull(Named(sID))) >>),
            Field(s_posts, "Ge posts with limit and offset",
                  NonNull(List(NonNull(Named(sPostedPost)))),
                  << Arg(s_input, Named(sPostsInput)) >>) >>
    [] name = sMutation ->
         << Field(s_updatePost, "Updates post and returns updated entity",
                  Named(sPostedPost),
                  << Arg(s_id, NonNull(Named(sID))),
                     Arg(s_text, NonNull(Named(sString))) >>),
            Field(s_deletePost, "Deletes post", NonNull(Named(sBoolean)),
                  << Arg(s_id, NonNull(Named(sID))) >>),
            Field(s_createPost, "Creates post", NonNull(Named(sModeratedPost)),
                  << Arg(s_data, Named(sPostData)) >>) >>
    [] name = sSubscription ->
         << Field(s_newPost, "Returns newly created post",
                  NonNull(Named(sPostedPost)), <<>>) >>
    [] name = sFeed ->
         << Field(s_latest, Null, Named(sPost), <<>>),
            Field(s_any, Null, Named(sAnyPost), <<>>),
            Field(s_pages, Null, List(List(NonNull(Named(sPostedPost)))), <<>>),
            Field(s_when, Null, Named(sDateTime), <<>>),
            Field(s_until, Null, NonNull(Named(sDateTime)), <<>>) >>
    [] OTHER -> <<>>

\* the description of each named type
DescriptionOf(name) ==
  CASE name = sPostAuthor -> "Author of post"
    [] name = sPost -> "Usual post"
    [] name = sPostedPost -> "Post that already was posted"
    [] name = sModeratedPost -> "Post that is currently reviewed by moderators"
    [] name = sAnyPost -> "Any type of post"
    [] name = sPostsInput -> "Input to get posts"
    [] name = sPostData -> "Data to create post"
    [] name = sQuery -> "Root Query type"
    [] name = sMutation -> "Root Mutation type"
    [] name = sSubscription -> "Root Subscription type"
    [] OTHER -> Null

\* the member types of a union (getTypes())
MembersOf(name) ==
  IF name = sAnyPost THEN <<Named(sModeratedPost), Named(sPostedPost)>>
  ELSE <<>>

\* the declaration node of each named type: its kind and the offset at which
\* the declaration (with its description) starts in the schema document.
\* DateTime and CATEGORY are referenced by the document and declared after it.
AstNodeOf(name) ==
  CASE name = sPostAuthor -> AstNode("ObjectTypeDefinition", 0)
    [] name = sPost -> AstNode("InterfaceTypeDefinition", 184)
    [] name = sPostedPost -> AstNode("ObjectTypeDefinition", 510)
    [] name = sModeratedPost -> AstNode("ObjectTypeDefinition", 923)
    [] name = sAnyPost -> AstNode("UnionTypeDefinition", 1370)
    [] name = sPostsInput -> AstNode("InputObjectTypeDefinition", 1433)
    [] name = sPostData -> AstNode("InputObjectTypeDefinition", 1505)
    [] name = sQuery -> AstNode("ObjectTypeDefinition", 1620)
    [] name = sMutation -> AstNode("ObjectTypeDefinition", 1781)
    [] name = sSubscription -> AstNode("ObjectTypeDefinition", 2025)
    [] name = sDateTime -> AstNode("ScalarTypeDefinition", 2095)
    [] name = sCATEGORY -> AstNode("EnumTypeDefinition", 2111)
    [] name = sFeed -> AstNode("ObjectTypeDefinition", 2140)
    [] OTHER -> Null

SchemaTypeNames ==
  << sPostAuthor, sPost, sPostedPost, sModeratedPost, sAnyPost, sPostsInput,
     sPostData, sQuery, sMutation, sSubscription, sDateTime, sCATEGORY,
     sFeed, sBoolean, sFloat, sString, sInt, sID >>

(***************************************************************************)
(* Type references in syntax-tree form (TypeNode) and their resolution     *)
(* against the schema (graphql's typeFromAST).                             *)
(***************************************************************************)
NamedTypeNode(name) == [kind |-> "NamedType", name |-> [value |-> name]]
ListTypeNode(t) == [kind |-> "ListType", type |-> t]
NonNullTypeNode(t) == [kind |-> "NonNullType", type |-> t]

RECURSIVE typeFromAST(_)
typeFromAST(node) ==
  CASE node.kind = "NonNullType" -> NonNull(typeFromAST(node.type))
    [] node.kind = "ListType" -> List(typeFromAST(node.type))
    [] node.kind = "NamedType" -> Named(node.name.value)

(***************************************************************************)
(* Type Reference Resolver (misc.ts 112-194).  The accumulator importTypes *)
(* is an array passed by reference: the recursive call pushes onto it and  *)
(* returns it, so the operators return the accumulator as it is after the  *)
(* call.                                                                   *)
(***************************************************************************)
\* if (!isGQLScalarType(t) && !importTypes.includes(t)) importTypes.push(t)
PushCustom(importTypes, t) ==
  IF ~isGQLScalarType(t) /\ ~Includes(importTypes, t)
  THEN Append(importTypes, t)
  ELSE importTypes

\* _importTypes.forEach(t => ...push...) over the elements present at the call
RECURSIVE ForEachPushCustom(_, _, _)
ForEachPushCustom(list, i, importTypes) ==
  IF i > Len(list) THEN importTypes
  ELSE ForEachPushCustom(list, i + 1, PushCustom(importTypes, list[i]))

ArraySuffix == <<"[","]">>

RECURSIVE getTypeNodeDefinition(_, _, _)
getTypeNodeDefinition(node, importTypes, nullable) ==
  IF node.kind = "NonNullType"
  THEN getTypeNodeDefinition(node.type, importTypes, FALSE)
  ELSE
    Bind(IF node.kind = "NamedType"
         THEN [definition |-> transpileGQLTypeName(node.name.value),
               importTypes |-> PushCustom(importTypes, node.name.value)]
         ELSE Bind(getTypeNodeDefinition(node.type, importTypes, TRUE),
                   LAMBDA inner :
                     [definition |-> inner.definition \o ArraySuffix,
                      importTypes |-> ForEachPushCustom(inner.importTypes, 1,
                                                        inner.importTypes)]),
         LAMBDA r :
           [definition |-> IF nullable THEN makeNullable(r.definition)
                           ELSE r.definition,
            importTypes |-> r.importTypes])

\* getIOTypeDefinition with the element of a list resolved under the list's
\* own nullability instead of nullable = true
RECURSIVE getIOTypeDefinition_ElementInherits(_, _, _)
getIOTypeDefinition_ElementInherits(type, importTypes, nullable) ==
  IF isNonNullType(type)
  THEN getIOTypeDefinition_ElementInherits(type.ofType, importTypes, FALSE)
  ELSE
    Bind(IF isListType(type)
         THEN Bind(getIOTypeDefinition_ElementInherits(type.ofType, importTypes, nullable),
                   LAMBDA inner :
                     [definition |-> inner.definition \o ArraySuffix,
                      importTypes |-> ForEachPushCustom(inner.importTypes, 1,
                                                        inner.importTypes)])
         ELSE [definition |-> transpileGQLTypeName(type.name),
               importTypes |-> PushCustom(importTypes, type.name)],
         LAMBDA r :
           [definition |-> IF nullable THEN makeNullable(r.definition)
                           ELSE r.definition,
            importTypes |-> r.importTypes])

RECURSIVE getIOTypeDefinition(_, _, _)
getIOTypeDefinition(type, importTypes, nullable) ==
  IF isNonNullType(type)
  THEN getIOTypeDefinition(type.ofType, importTypes, FALSE)
  ELSE
    Bind(IF isListType(type)
         THEN Bind(getIOTypeDefinition(type.ofType, importTypes, TRUE),
                   LAMBDA inner :
                     [definition |-> inner.definition \o ArraySuffix,
                      importTypes |-> ForEachPushCustom(inner.importTypes, 1,
                                                        inner.importTypes)])
         ELSE [definition |-> transpileGQLTypeName(type.name),
               importTypes |-> PushCustom(importTypes, type.name)],
         LAMBDA r :
           [definition |-> IF nullable THEN makeNullable(r.definition)
                           ELSE r.definition,
            importTypes |-> r.importTypes])

(***************************************************************************)
(* Inputs of the resolver: every nesting of at most MaxDepth wrapper       *)
(* layers over a named leaf; NonNull never wraps NonNull.                  *)
(***************************************************************************)
LeafNames == BuiltInScalars \cup {sDateTime, sPostedPost, sCATEGORY}

RECURSIVE TypeNodes(_)
TypeNodes(d) ==
  IF d = 0 THEN {NamedTypeNode(n) : n \in LeafNames}
  ELSE LET S == TypeNodes(d - 1)
       IN S \cup {ListTypeNode(t) : t \in S}
            \cup {NonNullTypeNode(t) : t \in {u \in S : u.kind # "NonNullType"}}


(***************************************************************************)
(* Specification of the resolver: one type reference, resolved once from   *)
(* its syntax-tree form and once from its resolved-schema-object form.     *)
(***************************************************************************)
ResolverIdle == typeNode = Null /\ nodeResult = Null /\ ioResult = Null
NavigatorIdle == rootName = Null /\ path = Null /\ getInResult = Null
ExtractorIdle == namedType = Null /\ entity = Null
ProjectorIdle == schema = Null /\ operationNode = Null /\ operation = Null
SorterIdle == display = Null /\ types = Null /\ sorted = Null
BatchIdle ==
  jobs = Null /\ pc = Null /\ frame = Null /\ records = Null /\ heap = Null

InitResolver ==
  /\ typeNode \in TypeNodes(MaxDepth)
  /\ nodeResult = Pending
  /\ ioResult = Pending
  /\ NavigatorIdle /\ ExtractorIdle /\ ProjectorIdle /\ SorterIdle
  /\ BatchIdle

\* getTypeNodeDefinition(node) with the default arguments ([] and true)
CallGetTypeNodeDefinition ==
  /\ typeNode # Null
  /\ nodeResult = Pending
  /\ nodeResult' = getTypeNodeDefinition(typeNode, <<>>, TRUE)
  /\ UNCHANGED <<typeNode, ioResult, navigatorVars, extractorVars,
                 projectorVars, sorterVars, batchVars>>

\* getIOTypeDefinition(type) with the default arguments ([] and true)
CallGetIOTypeDefinition ==
  /\ typeNode # Null
  /\ ioResult = Pending
  /\ ioResult' = getIOTypeDefinition(typeFromAST(typeNode), <<>>, TRUE)
  /\ UNCHANGED <<typeNode, nodeResult, navigatorVars, extractorVars,
                 projectorVars, sorterVars, batchVars>>

NextResolver == CallGetTypeNodeDefinition \/ CallGetIOTypeDefinition

SpecResolver == InitResolver /\ [][NextResolver]_vars

(***************************************************************************)
(* Properties of the resolver.                                             *)
(***************************************************************************)
NoDuplicates(arr) ==
  \A i, j \in DOMAIN arr : arr[i] = arr[j] => i = j

\* C1: for every type reference, getTypeNodeDefinition on the syntax-tree
\* form and getIOTypeDefinition on the resolved-schema-object form return the
\* same definition string and the same import list (same names, same order).
C1_SameResolution ==
  (nodeResult \notin {Null, Pending} /\ ioResult \notin {Null, Pending})
    => /\ nodeResult.definition = ioResult.definition
       /\ nodeResult.importTypes = ioResult.importTypes

\* a list of non-null custom elements has been resolved through both entries
C1_Witness ==
  /\ typeNode = ListTypeNode(NonNullTypeNode(NamedTypeNode(sDateTime)))
  /\ nodeResult \notin {Null, Pending}
  /\ ioResult \notin {Null, Pending}
  /\ ioResult.importTypes = <<sDateTime>>

\* The rendering the specification describes: every layer is nullable exactly
\* when it is not directly wrapped in NonNull, and the nullable suffix binds
\* to the whole element expression before the array suffix is added.
RECURSIVE OutsideInRendering(_, _)
OutsideInRendering(node, nullable) ==
  IF node.kind = "NonNullType" THEN OutsideInRendering(node.type, FALSE)
  ELSE
    LET body ==
          IF node.kind = "NamedType"
          THEN transpileGQLTypeName(node.name.value)
          ELSE LET element == OutsideInRendering(node.type, TRUE)
               IN (IF node.type.kind = "NonNullType" THEN element
                   ELSE <<"(">> \o element \o <<")">>) \o ArraySuffix
    IN IF nullable THEN body \o <<" ","|"," ","n","u","l","l">> ELSE body

\* C2: the rendering composes nullability and list-wrapping outside-in, the
\* nullable suffix applied to the whole element expression before the array
\* suffix: List(Named(String)) renders as "(string | null)[] | null" and
\* NonNull(List(NonNull(Named(X)))) as "X[]".
C2_OutsideIn ==
  ioResult \notin {Null, Pending}
    => ioResult.definition = OutsideInRendering(typeNode, TRUE)

(***************************************************************************)
(* Field-Path Navigator (misc.ts 312-360).                                 *)
(***************************************************************************)
\* getFirstNonWrappingType stripping a single wrapper layer
getFirstNonWrappingType_OneLayer(type) ==
  IF isWrappingType(type) THEN type.ofType ELSE type

RECURSIVE getFirstNonWrappingType(_)
getFirstNonWrappingType(type) ==
  IF isWrappingType(type) THEN getFirstNonWrappingType(type.ofType) ELSE type

\* fields[name] on a field map: the entry of that name, or undefined
Lookup(fields, name) ==
  Bind(fields, LAMBDA fs :
    IF \E i \in DOMAIN fs : fs[i].name = name
    THEN fs[CHOOSE i \in DOMAIN fs : fs[i].name = name]
    ELSE Null)

\* rootNode.toConfig().fields[name]: a GraphQLFieldConfig carries no name
ConfigLookup(fields, name) ==
  Bind(Lookup(fields, name), LAMBDA f :
    IF f = Null THEN Null
    ELSE [description |-> f.description, type |-> f.type, args |-> f.args])

UnableToFindPath ==
  <<"U","n","a","b","l","e"," ","t","o"," ","f","i","n","d"," ",
    "p","a","t","h"," ">>

\* throw new Error(`Unable to find path ${path}`)
PathError(p) == [throw |-> "Error", message |-> UnableToFindPath \o p]

IsThrow(r) == "throw" \in DOMAIN r

\* the for loop of getIn from index i (1-based) with the current field
RECURSIVE getInLoop(_, _, _, _)
getInLoop(field, restPartials, i, p) ==
  IF i > Len(restPartials) THEN Null
  ELSE
    Bind(getFirstNonWrappingType(field.type), LAMBDA type :
      IF ~isObjectType(type) /\ ~isInterfaceType(type) THEN PathError(p)
      ELSE Bind(Lookup(FieldsOf(type.name), restPartials[i]), LAMBDA next :
             IF next = Null THEN PathError(p)
             ELSE IF i = Len(restPartials) THEN next
             ELSE getInLoop(next, restPartials, i + 1, p)))

\* getIn(rootNode, path); a null rootNode makes rootNode.toConfig() throw
getIn(root, p) ==
  IF root = Null THEN [throw |-> "TypeError", message |-> <<>>]
  ELSE
    Bind(SplitDots(p), LAMBDA partials :
      Bind(ConfigLookup(FieldsOf(root), Head(partials)), LAMBDA field :
        IF field = Null THEN PathError(p)
        ELSE IF Len(Tail(partials)) = 0 THEN field
        ELSE getInLoop(field, Tail(partials), 1, p)))

(***************************************************************************)
(* Specification of the navigator: one root type and one dotted path.      *)
(***************************************************************************)
SegmentPool ==
  {s_post, s_posts, s_id, s_author, s_name, s_latest, s_any, s_pages,
   s_data, <<>>}

RootPool == {sQuery, sMutation, sFeed, sPostedPost}

SeqsUpTo(S, n) == UNION {[1..k -> S] : k \in 1..n}

InitNavigator ==
  /\ rootName \in RootPool
  /\ path \in {JoinDots(segs) : segs \in SeqsUpTo(SegmentPool, MaxPath)}
  /\ getInResult = Pending
  /\ ResolverIdle /\ ExtractorIdle /\ ProjectorIdle /\ SorterIdle
  /\ BatchIdle

CallGetIn ==
  /\ getInResult = Pending
  /\ getInResult' = getIn(rootName, path)
  /\ UNCHANGED <<rootName, path, resolverVars, extractorVars, projectorVars,
                 sorterVars, batchVars>>

NextNavigator == CallGetIn

SpecNavigator == InitNavigator /\ [][NextNavigator]_vars

(***************************************************************************)
(* Properties of the navigator.                                            *)
(***************************************************************************)
NotFound == [found |-> FALSE]

\* the named type under all List / NonNull layers of a reference
RECURSIVE LeafOf(_)
LeafOf(type) ==
  IF type.class \in {"GraphQLNonNull", "GraphQLList"} THEN LeafOf(type.ofType)
  ELSE type

\* Literal descent: the field a sequence of segments leads to from a type,
\* found segment by segment from the last one back, or NotFound.
RECURSIVE Descend(_, _)
Descend(root, segs) ==
  IF Len(segs) = 1
  THEN IF \E i \in DOMAIN FieldsOf(root) : FieldsOf(root)[i].name = segs[1]
       THEN Lookup(FieldsOf(root), segs[1]) ELSE NotFound
  ELSE
    LET parent == Descend(root, SubSeq(segs, 1, Len(segs) - 1))
    IN IF parent = NotFound THEN NotFound
       ELSE LET leaf == LeafOf(parent.type)
                last == segs[Len(segs)]
            IN IF /\ leaf.class \in {"GraphQLObjectType", "GraphQLInterfaceType"}
                  /\ \E i \in DOMAIN FieldsOf(leaf.name) :
                       FieldsOf(leaf.name)[i].name = last
               THEN Lookup(FieldsOf(leaf.name), last)
               ELSE NotFound

SomePrefixMissing(root, segs) ==
  \E k \in 1..Len(segs) : Descend(root, SubSeq(segs, 1, k)) = NotFound

\* sub occurs in str
Contains(str, sub) ==
  \E i \in 0..(Len(str) - Len(sub)) : SubSeq(str, i + 1, i + Len(sub)) = sub

\* C5: getIn throws the path-not-found error iff some prefix of the dotted
\* path cannot be found by literal descent (wrappers stripped at each hop, only
\* object and interface types descended into); otherwise it returns the field
\* of the final segment, never nothing; the message of the error contains the
\* full attempted path.
C5_PathNotFoundIff ==
  getInResult \notin {Null, Pending}
    => LET segs == SplitDots(path)
       IN /\ IsThrow(getInResult) <=> SomePrefixMissing(rootName, segs)
          /\ IsThrow(getInResult)
               => /\ getInResult.throw = "Error"
                  /\ Contains(getInResult.message, path)
                  /\ getInResult.message = UnableToFindPath \o path
          /\ ~IsThrow(getInResult)
               => /\ getInResult.type = Descend(rootName, segs).type
                  /\ getInResult.args = Descend(rootName, segs).args

\* a three-segment path through a list-of-non-null field was resolved
C5_Witness ==
  /\ rootName = sQuery
  /\ path = JoinDots(<<s_posts, s_author, s_name>>)
  /\ getInResult \notin {Null, Pending}
  /\ ~IsThrow(getInResult)
  /\ getInResult.type = NonNull(Named(sString))

\* a descent into a scalar was refused with the full path in the message
C5_WitnessThrow ==
  /\ rootName = sQuery
  /\ path = JoinDots(<<s_post, s_id, s_name>>)
  /\ getInResult = PathError(path)

(***************************************************************************)
(* Naming (misc.ts 232-263).                                               *)
(***************************************************************************)
\* text.replace(/[^\da-z].?/gi, match => match[1] ? match[1].toUpperCase() : '')
RECURSIVE ClearFrom(_, _)
ClearFrom(text, i) ==
  IF i > Len(text) THEN <<>>
  ELSE IF ~IsAlnum(text[i])
       THEN (IF i + 1 <= Len(text) THEN <<toUpperCase(text[i + 1])>> ELSE <<>>)
              \o ClearFrom(text, i + 2)
       ELSE <<text[i]>> \o ClearFrom(text, i + 1)

TypeError == [throw |-> "TypeError", message |-> <<>>]

\* cleared[0].toUpperCase() + cleared.slice(1); cleared[0] is undefined when
\* nothing is left of the text, and the call on it throws
toCamelCase(text) ==
  Bind(ClearFrom(text, 1), LAMBDA cleared :
    IF Len(cleared) = 0 THEN TypeError
    ELSE <<toUpperCase(cleared[1])>> \o Tail(cleared))

\* whether toCamelCase(text) throws instead of returning a string
toCamelCaseThrows(text) == Len(ClearFrom(text, 1)) = 0

(***************************************************************************)
(* Named-Type Entity Extractor (misc.ts 420-610).                          *)
(***************************************************************************)
\* the GraphQLNamedType object of a type of the schema
TypeObject(name) ==
  [class |-> TypeClass(name), name |-> name,
   description |-> DescriptionOf(name), astNode |-> AstNodeOf(name),
   fields |-> FieldsOf(name), types |-> MembersOf(name), values |-> <<>>]

\* importTypes.forEach(t => { if (!acc.includes(t)) acc.push(t) })
RECURSIVE MergeImports(_, _, _)
MergeImports(acc, list, i) ==
  IF i > Len(list) THEN acc
  ELSE MergeImports(IF Includes(acc, list[i]) THEN acc
                    ELSE Append(acc, list[i]), list, i + 1)

\* args.reduce(...) that lists the arguments and leaves their imports out
RECURSIVE ArgsReduce_NoImports(_, _, _)
ArgsReduce_NoImports(args, i, argAcc) ==
  IF i > Len(args) THEN argAcc
  ELSE
    Bind(getIOTypeDefinition(args[i].type, <<>>, TRUE), LAMBDA def :
      ArgsReduce_NoImports(args, i + 1,
        [name |-> argAcc.name,
         fields |-> Append(argAcc.fields,
                           [name |-> args[i].name,
                            description |-> args[i].description,
                            type |-> def.definition]),
         importTypes |-> argAcc.importTypes]))

\* args.reduce(...) of parseObjectOrInterfaceType
RECURSIVE ArgsReduce(_, _, _)
ArgsReduce(args, i, argAcc) ==
  IF i > Len(args) THEN argAcc
  ELSE
    Bind(getIOTypeDefinition(args[i].type, <<>>, TRUE), LAMBDA def :
      ArgsReduce(args, i + 1,
        [name |-> argAcc.name,
         fields |-> Append(argAcc.fields,
                           [name |-> args[i].name,
                            description |-> args[i].description,
                            type |-> def.definition]),
         importTypes |-> MergeImports(argAcc.importTypes, def.importTypes, 1)]))

EmptyArguments ==
  [name |-> <<"A","r","g","u","m","e","n","t","s">>, fields |-> <<>>,
   importTypes |-> <<>>]

EmptyEntity(formattedName, description) ==
  [__type |-> "entity",
   fields |-> [name |-> formattedName, fields |-> <<>>],
   namespace |-> [name |-> formattedName, description |-> description,
                  fields |-> <<>>],
   importTypes |-> <<>>]

\* the reducer of parseObjectOrInterfaceType with the flat field's type built
\* from the field name alone
ObjectFieldStep_BarePath(acc, f, formattedName) ==
  Bind(ArgsReduce(f.args, 1, EmptyArguments), LAMBDA preparedArguments :
    Bind(getIOTypeDefinition(f.type, <<>>, TRUE), LAMBDA def :
      [__type |-> acc.__type,
       fields |-> [name |-> acc.fields.name,
                   fields |-> Append(acc.fields.fields,
                                [name |-> f.name,
                                 description |-> f.description,
                                 type |-> f.name])],
       namespace |-> [name |-> acc.namespace.name,
                      description |-> acc.namespace.description,
                      fields |-> Append(acc.namespace.fields,
                                   [name |-> f.name,
                                    description |-> f.description,
                                    args |-> preparedArguments,
                                    type |-> def.definition])],
       importTypes |->
         MergeImports(acc.importTypes,
                      def.importTypes \o preparedArguments.importTypes, 1)]))

\* the reducer of parseObjectOrInterfaceType: one field folded into the entity
ObjectFieldStep(acc, f, formattedName) ==
  Bind(ArgsReduce(f.args, 1, EmptyArguments), LAMBDA preparedArguments :
    Bind(getIOTypeDefinition(f.type, <<>>, TRUE), LAMBDA def :
      [__type |-> acc.__type,
       fields |-> [name |-> acc.fields.name,
                   fields |-> Append(acc.fields.fields,
                                [name |-> f.name,
                                 description |-> f.description,
                                 type |-> formattedName \o <<".">> \o f.name])],
       namespace |-> [name |-> acc.namespace.name,
                      description |-> acc.namespace.description,
                      fields |-> Append(acc.namespace.fields,
                                   [name |-> f.name,
                                    description |-> f.description,
                                    args |-> preparedArguments,
                                    type |-> def.definition])],
       importTypes |->
         MergeImports(acc.importTypes,
                      def.importTypes \o preparedArguments.importTypes, 1)]))

RECURSIVE ObjectFieldsReduce(_, _, _, _)
ObjectFieldsReduce(fields, i, acc, formattedName) ==
  IF i > Len(fields) THEN acc
  ELSE ObjectFieldsReduce(fields, i + 1,
                          ObjectFieldStep(acc, fields[i], formattedName),
                          formattedName)

parseObjectOrInterfaceType(type) ==
  Bind(toCamelCase(type.name), LAMBDA formattedName :
    IF toCamelCaseThrows(type.name) THEN formattedName
    ELSE ObjectFieldsReduce(type.fields, 1,
                            EmptyEntity(formattedName, type.description),
                            formattedName))

\* the reducer of parseInputObjectType
InputFieldStep(acc, f, formattedName) ==
  Bind(getIOTypeDefinition(f.type, <<>>, TRUE), LAMBDA def :
    [__type |-> acc.__type,
     fields |-> [name |-> acc.fields.name,
                 fields |-> Append(acc.fields.fields,
                              [name |-> f.name,
                               description |-> f.description,
                               type |-> formattedName \o <<".">> \o f.name])],
     namespace |-> [name |-> acc.namespace.name,
                    description |-> acc.namespace.description,
                    fields |-> Append(acc.namespace.fields,
                                 [name |-> f.name,
                                  description |-> f.description,
                                  args |-> Null,
                                  type |-> def.definition])],
     importTypes |-> MergeImports(acc.importTypes, def.importTypes, 1)])

RECURSIVE InputFieldsReduce(_, _, _, _)
InputFieldsReduce(fields, i, acc, formattedName) ==
  IF i > Len(fields) THEN acc
  ELSE InputFieldsReduce(fields, i + 1,
                         InputFieldStep(acc, fields[i], formattedName),
                         formattedName)

parseInputObjectType(type) ==
  Bind(toCamelCase(type.name), LAMBDA formattedName :
    IF toCamelCaseThrows(type.name) THEN formattedName
    ELSE InputFieldsReduce(type.fields, 1,
                           EmptyEntity(formattedName, type.description),
                           formattedName))

parseScalarType(type) ==
  [__type |-> "scalar", description |-> type.description, name |-> type.name]

parseUnionType(type) ==
  [__type |-> "union", name |-> type.name, description |-> type.description,
   types |-> [i \in DOMAIN type.types |->
                transpileGQLTypeName(type.types[i].name)]]

parseEnumType(type) ==
  [__type |-> "enum", name |-> type.name, description |-> type.description,
   values |-> [i \in DOMAIN type.values |->
                 [description |-> type.values[i].description,
                  name |-> type.values[i].name]]]

parseNamedType(type) ==
  IF type.astNode = Null THEN Null
  ELSE IF isScalarType(type) THEN parseScalarType(type)
  ELSE IF isUnionType(type) THEN parseUnionType(type)
  ELSE IF isEnumType(type) THEN parseEnumType(type)
  ELSE IF isObjectType(type) \/ isInterfaceType(type)
       THEN parseObjectOrInterfaceType(type)
  ELSE parseInputObjectType(type)

(***************************************************************************)
(* Specification of the extractor: one named type handed to                *)
(* parseNamedType.  The inputs are the named types of the schema and       *)
(* object, interface and input-object types with up to MaxFields fields.   *)
(***************************************************************************)
s_post_data == <<"p","o","s","t","_","d","a","t","a">>
s_underscore == <<"_">>
sX9 == <<"X","9">>

GenNames == {s_post_data, s_underscore, sX9}
GenFieldNames == {s_id, s_author, s_when}
GenOutputTypes ==
  {NonNull(Named(sID)), List(Named(sDateTime)), NonNull(Named(sPostAuthor))}
GenInputTypes ==
  {NonNull(Named(sID)), List(Named(sDateTime)), NonNull(Named(sPostsInput))}
GenArgLists ==
  { <<>>,
    << Arg(s_id, NonNull(Named(sID))) >>,
    << Arg(s_input, Named(sPostsInput)),
       Arg(s_data, List(NonNull(Named(sPostData)))) >> }

GenOutputFields ==
  {Field(n, Null, t, a) : n \in GenFieldNames, t \in GenOutputTypes,
                          a \in GenArgLists}
GenInputFields ==
  {Field(n, Null, t, <<>>) : n \in GenFieldNames, t \in GenInputTypes}

\* field maps: sequences of at most n fields with pairwise different names
FieldMaps(pool, n) ==
  UNION {{fs \in [1..k -> pool] :
            \A a, b \in 1..k : fs[a].name = fs[b].name => a = b} : k \in 0..n}

GenTypes ==
  {[class |-> c, name |-> n, description |-> Null,
    astNode |-> AstNode(IF c = "GraphQLObjectType" THEN "ObjectTypeDefinition"
                        ELSE "InterfaceTypeDefinition", 0),
    fields |-> fs, types |-> <<>>, values |-> <<>>] :
     c \in {"GraphQLObjectType", "GraphQLInterfaceType"}, n \in GenNames,
     fs \in FieldMaps(GenOutputFields, MaxFields)}
  \cup
  {[class |-> "GraphQLInputObjectType", name |-> n, description |-> Null,
    astNode |-> AstNode("InputObjectTypeDefinition", 0),
    fields |-> fs, types |-> <<>>, values |-> <<>>] :
     n \in GenNames, fs \in FieldMaps(GenInputFields, MaxFields)}

\* a type of the same category built without a declaration node, as the types
\* the schema system makes itself are (built-in scalars, introspection types)
Undeclared(type) == [type EXCEPT !.astNode = Null]

DeclaredTypes ==
  {TypeObject(SchemaTypeNames[i]) : i \in DOMAIN SchemaTypeNames} \cup GenTypes

InitExtractor ==
  /\ namedType \in DeclaredTypes \cup {Undeclared(t) : t \in DeclaredTypes}
  /\ entity = Pending
  /\ ResolverIdle /\ NavigatorIdle /\ ProjectorIdle /\ SorterIdle
  /\ BatchIdle

CallParseNamedType ==
  /\ entity = Pending
  /\ entity' = parseNamedType(namedType)
  /\ UNCHANGED <<namedType, resolverVars, navigatorVars, projectorVars,
                 sorterVars, batchVars>>

NextExtractor == CallParseNamedType

SpecExtractor == InitExtractor /\ [][NextExtractor]_vars

(***************************************************************************)
(* Properties of the extractor.                                            *)
(***************************************************************************)
IsEntity(e) ==
  /\ e \notin {Null, Pending}
  /\ ~IsThrow(e)
  /\ e.__type = "entity"

NamesOf(fs) == [i \in DOMAIN fs |-> fs[i].name]

\* C4: for every entity extracted from an object, interface or input-object
\* type, the flat field list and the namespace field list hold the same field
\* names in the same order, which is the declared field order; every flat
\* field name has exactly one same-named namespace field; and every flat
\* field's type is the dotted path <namespace name>.<field name>.
C4_FlatMatchesNamespace ==
  IsEntity(entity)
    => LET flat == entity.fields.fields
           nsp == entity.namespace.fields
       IN /\ NamesOf(flat) = NamesOf(nsp)
          /\ NamesOf(flat) = NamesOf(namedType.fields)
          /\ \A i \in DOMAIN flat :
               /\ Cardinality({j \in DOMAIN nsp : nsp[j].name = flat[i].name}) = 1
               /\ flat[i].type = entity.namespace.name \o <<".">> \o flat[i].name

\* the entity of a type whose name is rewritten by toCamelCase, two fields
C4_Witness ==
  /\ IsEntity(entity)
  /\ namedType.name = s_post_data
  /\ entity.namespace.name = <<"P","o","s","t","D","a","t","a">>
  /\ NamesOf(entity.fields.fields) = <<s_when, s_id>>
  /\ entity.fields.fields[1].type
       = <<"P","o","s","t","D","a","t","a",".","w","h","e","n">>

\* the __type tag of the record of each category of named type
RecordTagOf(type) ==
  CASE isScalarType(type) -> "scalar"
    [] isUnionType(type) -> "union"
    [] isEnumType(type) -> "enum"
    [] OTHER -> "entity"

\* the record parseNamedType owes a type that has a declaration node: no
\* exception, not null, tagged with the type's category and named after it
IsRecordOfCategory(e, type) ==
  /\ e # Null
  /\ ~IsThrow(e)
  /\ e.__type = RecordTagOf(type)
  /\ IF e.__type = "entity"
     THEN e.fields.name = e.namespace.name
     ELSE e.name = type.name

\* C11: parseNamedType returns null for every named type without a
\* declaration node, whatever its category, and for every named type with
\* one it returns the record of the type's category: scalar, union, enum, or
\* entity for an object, an interface or an input object.
C11_DispatchByCategory ==
  entity # Pending
    => IF namedType.astNode = Null THEN entity = Null
       ELSE IsRecordOfCategory(entity, namedType)

\* the same dispatch, for the types whose name toCamelCase can format
C11_DispatchOfFormattableNames ==
  (entity # Pending /\ ~toCamelCaseThrows(namedType.name))
    => IF namedType.astNode = Null THEN entity = Null
       ELSE IsRecordOfCategory(entity, namedType)

\* scalars, unions and enums are dispatched whatever their name
C11_DispatchOfFieldlessTypes ==
  (entity # Pending /\ RecordTagOf(namedType) # "entity")
    => IF namedType.astNode = Null THEN entity = Null
       ELSE IsRecordOfCategory(entity, namedType)

\* a declared object type named _ : the call throws instead of returning
C11_ThrowReached ==
  /\ entity # Pending
  /\ namedType.name = s_underscore
  /\ namedType.astNode # Null
  /\ isObjectType(namedType)
  /\ IsThrow(entity)

(***************************************************************************)
(* Operation projector and assembler (misc.ts 295-305, 617-827).           *)
(* A call that can throw returns a completion: Normal(value) or the        *)
(* thrown error, which every caller hands on unchanged, as an uncaught     *)
(* JavaScript exception is.                                                *)
(***************************************************************************)
Normal(v) == [completion |-> "normal", value |-> v]
Throw(e) == [completion |-> "throw", value |-> e]
IsNormal(c) == c.completion = "normal"

FieldNode(name, selectionSet) ==
  [kind |-> "Field", name |-> [value |-> name], selectionSet |-> selectionSet]
FragmentSpreadNode(name) ==
  [kind |-> "FragmentSpread", name |-> [value |-> name]]
InlineFragmentNode(typeName, selectionSet) ==
  [kind |-> "InlineFragment", typeCondition |-> NamedTypeNode(typeName),
   selectionSet |-> selectionSet]
SelectionSetNode(selections) ==
  [kind |-> "SelectionSet", selections |-> selections]
VariableDefinitionNode(name, type) ==
  [kind |-> "VariableDefinition",
   variable |-> [kind |-> "Variable", name |-> [value |-> name]],
   type |-> type]

getCompiledOperationName(name, op) == name \o toCamelCase(op)

\* the namespace name built from the name as given
getCompiledOperationNamespaceName_RawName(name, op) == name \o toCamelCase(op)

getCompiledOperationNamespaceName(name, op) ==
  toCamelCase(name) \o toCamelCase(op)

s_query == <<"q","u","e","r","y">>
s_mutation == <<"m","u","t","a","t","i","o","n">>
s_subscription == <<"s","u","b","s","c","r","i","p","t","i","o","n">>

\* schema.getQueryType() and its siblings return undefined for a root the
\* schema does not configure
getOperationRootNode(sch, op) ==
  IF op = s_query THEN sch.query
  ELSE IF op = s_mutation THEN sch.mutation
  ELSE sch.subscription

\* nodes.reduce(...) of parseOperationVariableDefinitions
RECURSIVE VariablesReduce(_, _, _)
VariablesReduce(nodes, i, acc) ==
  IF i > Len(nodes) THEN acc
  ELSE
    Bind(getTypeNodeDefinition(nodes[i].type, <<>>, TRUE), LAMBDA def :
      VariablesReduce(nodes, i + 1,
        [name |-> acc.name,
         fields |-> Append(acc.fields, [name |-> nodes[i].variable.name.value,
                                        type |-> def.definition]),
         importTypes |-> MergeImports(acc.importTypes, def.importTypes, 1)]))

parseOperationVariableDefinitions(nodes) ==
  VariablesReduce(nodes, 1, EmptyArguments)

\* selections.reduce(...) keeping the selections of kind Field
RECURSIVE ObjectFieldsOfSelections(_, _, _)
ObjectFieldsOfSelections(selections, i, nspName) ==
  IF i > Len(selections) THEN <<>>
  ELSE (IF selections[i].kind = "Field"
        THEN << [name |-> selections[i].name.value,
                 type |-> nspName \o <<".">> \o selections[i].name.value] >>
        ELSE <<>>)
         \o ObjectFieldsOfSelections(selections, i + 1, nspName)

selectionSetToObjectFields(selectionSet, nspName) ==
  ObjectFieldsOfSelections(selectionSet.selections, 1, nspName)

\* selectionSetToNamespaceFields and fieldNodeToNamespaceField call each
\* other; NamespaceFieldsReduce is the reduce of the former from selection i
\* with the accumulated entries acc.
RECURSIVE NamespaceFieldsReduce(_, _, _, _, _)
RECURSIVE fieldNodeToNamespaceField(_, _, _)

\* fieldNodeToNamespaceField resolving a leaf from the field's type with its
\* wrapper layers stripped
fieldNodeToNamespaceField_StrippedLeaf(node, rootNode, prevPath) ==
  Bind(IF Len(prevPath) > 0 THEN prevPath \o <<".">> \o node.name.value
       ELSE node.name.value, LAMBDA p :
    Bind(getIn(rootNode, p), LAMBDA found :
      IF IsThrow(found) THEN Throw(found)
      ELSE IF node.selectionSet # Null
      THEN Bind(NamespaceFieldsReduce(node.selectionSet.selections, 1, <<>>,
                                      rootNode, p), LAMBDA children :
             IF ~IsNormal(children) THEN children
             ELSE Normal(
               [name |-> node.name.value,
                type |-> [name |-> node.name.value,
                          fields |-> ObjectFieldsOfSelections(
                                       node.selectionSet.selections, 1,
                                       node.name.value),
                          outputType |-> found.type],
                fields |-> children.value]))
      ELSE Normal([name |-> node.name.value,
                   type |-> getIOTypeDefinition(getFirstNonWrappingType(found.type), <<>>, TRUE)])))

fieldNodeToNamespaceField(node, rootNode, prevPath) ==
  Bind(IF Len(prevPath) > 0 THEN prevPath \o <<".">> \o node.name.value
       ELSE node.name.value, LAMBDA p :
    Bind(getIn(rootNode, p), LAMBDA found :
      IF IsThrow(found) THEN Throw(found)
      ELSE IF node.selectionSet # Null
      THEN Bind(NamespaceFieldsReduce(node.selectionSet.selections, 1, <<>>,
                                      rootNode, p), LAMBDA children :
             IF ~IsNormal(children) THEN children
             ELSE Normal(
               [name |-> node.name.value,
                type |-> [name |-> node.name.value,
                          fields |-> ObjectFieldsOfSelections(
                                       node.selectionSet.selections, 1,
                                       node.name.value),
                          outputType |-> found.type],
                fields |-> children.value]))
      ELSE Normal([name |-> node.name.value,
                   type |-> getIOTypeDefinition(found.type, <<>>, TRUE)])))

NamespaceFieldsReduce(selections, i, acc, rootNode, p) ==
  IF i > Len(selections) THEN Normal(acc)
  ELSE IF selections[i].kind = "Field"
       THEN Bind(fieldNodeToNamespaceField(selections[i], rootNode, p),
                 LAMBDA f :
                   IF ~IsNormal(f) THEN f
                   ELSE NamespaceFieldsReduce(selections, i + 1,
                                              Append(acc, f.value), rootNode, p))
       ELSE NamespaceFieldsReduce(selections, i + 1, acc, rootNode, p)

selectionSetToNamespaceFields(selectionSet, rootNode, p) ==
  NamespaceFieldsReduce(selectionSet.selections, 1, <<>>, rootNode, p)

\* fields.flatMap(f): the concatenation of the lists f gives
RECURSIVE getImportTypes(_)
RECURSIVE FlatMapImportTypes(_, _)
FlatMapImportTypes(fields, i) ==
  IF i > Len(fields) THEN <<>>
  ELSE getImportTypes(fields[i]) \o FlatMapImportTypes(fields, i + 1)

\* getImportTypes without the descent into the children
getImportTypes_OwnOnly(field) ==
  IF "importTypes" \in DOMAIN field.type
  THEN MergeImports(<<>>, field.type.importTypes, 1)
  ELSE <<>>

getImportTypes(field) ==
  Bind(IF "importTypes" \in DOMAIN field.type
       THEN MergeImports(<<>>, field.type.importTypes, 1)
       ELSE <<>>, LAMBDA own :
    IF "fields" \in DOMAIN field
    THEN MergeImports(own, FlatMapImportTypes(field.fields, 1), 1)
    ELSE own)

selectionSetToRootNamespace(selectionSet, compiledName, args, rootNode) ==
  Bind(selectionSetToNamespaceFields(selectionSet, rootNode, <<>>),
       LAMBDA nspFields :
         IF ~IsNormal(nspFields) THEN nspFields
         ELSE Normal([name |-> compiledName,
                      fields |-> nspFields.value,
                      args |-> args,
                      importTypes |-> FlatMapImportTypes(nspFields.value, 1)]))

\* The raw signature text (operationsString.slice(loc.start, loc.end)) is a
\* copy of the document text and is left out of the record.
parseOperationDefinitionNode(node, sch) ==
  IF node.name = Null THEN Throw(TypeError)
  ELSE IF toCamelCaseThrows(node.name.value) THEN Throw(TypeError)
  ELSE
    Bind(getCompiledOperationName(node.name.value, node.operation),
         LAMBDA operationName :
    Bind(getCompiledOperationNamespaceName(node.name.value, node.operation),
         LAMBDA operationNamespaceName :
    Bind(parseOperationVariableDefinitions(node.variableDefinitions),
         LAMBDA args :
    Bind(selectionSetToRootNamespace(
           node.selectionSet, operationNamespaceName, args,
           getOperationRootNode(sch, node.operation)),
         LAMBDA namespace :
      IF ~IsNormal(namespace) THEN namespace
      ELSE Normal(
        [__type |-> "operation",
         name |-> operationName,
         selection |->
           [name |-> operationName,
            fields |-> selectionSetToObjectFields(node.selectionSet,
                                                  operationNamespaceName)],
         namespace |-> namespace.value,
         importTypes |->
           MergeImports(MergeImports(<<>>, args.importTypes, 1),
                        namespace.value.importTypes, 1)])))))

(***************************************************************************)
(* Specification of the projector: one schema and one operation handed to  *)
(* parseOperationDefinitionNode.                                           *)
(***************************************************************************)
\* the schema of the repository's document, and a schema whose only root is
\* the query root Feed
SchemaPool ==
  { [query |-> sQuery, mutation |-> sMutation, subscription |-> sSubscription],
    [query |-> sFeed, mutation |-> Null, subscription |-> Null] }

s_get == <<"g","e","t">>
s_get_all == <<"g","e","t","_","a","l","l">>
s_since == <<"s","i","n","c","e">>
sF == <<"F">>

\* operation names; Null is the anonymous operation
OperationNamePool == {[value |-> s_get], [value |-> s_get_all], Null}

OperationKinds == {s_query, s_mutation, s_subscription}

VariablePool ==
  { VariableDefinitionNode(s_id, NonNullTypeNode(NamedTypeNode(sID))),
    VariableDefinitionNode(s_since, ListTypeNode(NamedTypeNode(sDateTime))),
    VariableDefinitionNode(s_input,
                           NonNullTypeNode(NamedTypeNode(sPostsInput))) }

\* the selections a root selection set is drawn from
RootSelectionPool ==
  { \* posts { id author { name registeredAt } }
    FieldNode(s_posts, SelectionSetNode(
      << FieldNode(s_id, Null),
         FieldNode(s_author, SelectionSetNode(
           << FieldNode(s_name, Null), FieldNode(s_registeredAt, Null) >>)) >>)),
    \* post { createdAt id }
    FieldNode(s_post, SelectionSetNode(
      << FieldNode(s_createdAt, Null), FieldNode(s_id, Null) >>)),
    \* when
    FieldNode(s_when, Null),
    \* until
    FieldNode(s_until, Null),
    \* pages { ... on PostedPost { id } category }
    FieldNode(s_pages, SelectionSetNode(
      << InlineFragmentNode(sPostedPost,
                            SelectionSetNode(<< FieldNode(s_id, Null) >>)),
         FieldNode(s_category, Null) >>)),
    \* ...F
    FragmentSpreadNode(sF),
    \* deletePost
    FieldNode(s_deletePost, Null),
    \* newPost { postedAt }
    FieldNode(s_newPost, SelectionSetNode(<< FieldNode(s_postedAt, Null) >>)),
    \* latest { id }
    FieldNode(s_latest, SelectionSetNode(<< FieldNode(s_id, Null) >>)) }

Seqs0UpTo(S, n) == UNION {[1..k -> S] : k \in 0..n}

OperationNodes ==
  {[kind |-> "OperationDefinition", operation |-> k, name |-> n,
    variableDefinitions |-> v, selectionSet |-> SelectionSetNode(sel)] :
     k \in OperationKinds, n \in OperationNamePool,
     v \in Seqs0UpTo(VariablePool, MaxVars),
     sel \in SeqsUpTo(RootSelectionPool, MaxSel)}

InitProjector ==
  /\ schema \in SchemaPool
  /\ operationNode \in OperationNodes
  /\ operation = Pending
  /\ ResolverIdle /\ NavigatorIdle /\ ExtractorIdle /\ SorterIdle
  /\ BatchIdle

CallParseOperationDefinitionNode ==
  /\ operation = Pending
  /\ operation' = parseOperationDefinitionNode(operationNode, schema)
  /\ UNCHANGED <<schema, operationNode, resolverVars, navigatorVars,
                 extractorVars, sorterVars, batchVars>>

NextProjector == CallParseOperationDefinitionNode

SpecProjector == InitProjector /\ [][NextProjector]_vars

(***************************************************************************)
(* Properties of the projector.                                            *)
(***************************************************************************)
Done(op) == op \notin {Null, Pending}

IsFieldNode(sel) == sel.kind = "Field"

\* the selections of kind Field, in selection order
FieldSelections(selections) == SelectSeq(selections, IsFieldNode)

\* the root type the schema configures for an operation kind
RootOfKind(sch, kind) ==
  CASE kind = s_query -> sch.query
    [] kind = s_mutation -> sch.mutation
    [] kind = s_subscription -> sch.subscription

\* the named leaf of a type reference in syntax-tree form
RECURSIVE LeafNameOfNode(_)
LeafNameOfNode(node) ==
  IF node.kind = "NamedType" THEN node.name.value
  ELSE LeafNameOfNode(node.type)

\* the named types the variable definitions refer to, in order
VariableRefs(defs) == [i \in DOMAIN defs |-> LeafNameOfNode(defs[i].type)]

\* the named types the leaves of a selection tree refer to, depth first in
\* selection order; segs is the path of field names above the selections
RECURSIVE SelectionRefs(_, _, _)
SelectionRefs(root, selections, segs) ==
  IF Len(selections) = 0 THEN <<>>
  ELSE
    LET sel == Head(selections)
        here ==
          IF sel.kind # "Field" THEN <<>>
          ELSE IF sel.selectionSet = Null
               THEN << LeafOf(Descend(root, Append(segs, sel.name.value)).type)
                         .name >>
               ELSE SelectionRefs(root, sel.selectionSet.selections,
                                  Append(segs, sel.name.value))
    IN here \o SelectionRefs(root, Tail(selections), segs)

IsCustom(name) == name \notin {sBoolean, sFloat, sString, sInt, sID}

\* the custom names of a list of references, each once, in first-seen order
RECURSIVE FirstSeen(_)
FirstSeen(refs) ==
  IF Len(refs) = 0 THEN <<>>
  ELSE LET before == FirstSeen(SubSeq(refs, 1, Len(refs) - 1))
           last == refs[Len(refs)]
       IN IF IsCustom(last) /\ last \notin Range(before)
          THEN Append(before, last) ELSE before

WellFormedImports(list) ==
  /\ \A i \in DOMAIN list : IsCustom(list[i])
  /\ NoDuplicates(list)

\* C3: every import list of an operation record (the Arguments record's, the
\* root namespace's, the operation's, and each projected leaf's) contains no
\* built-in scalar name and no name twice, and lists the names in first-seen
\* order.
C3_ImportLists ==
  (Done(operation) /\ IsNormal(operation))
    => LET op == operation.value
           root == RootOfKind(schema, operationNode.operation)
           varRefs == VariableRefs(operationNode.variableDefinitions)
           selRefs == SelectionRefs(root, operationNode.selectionSet.selections,
                                    <<>>)
       IN /\ WellFormedImports(op.namespace.args.importTypes)
          /\ op.namespace.args.importTypes = FirstSeen(varRefs)
          /\ WellFormedImports(op.importTypes)
          /\ op.importTypes = FirstSeen(varRefs \o selRefs)
          /\ WellFormedImports(op.namespace.importTypes)
          /\ op.namespace.importTypes = FirstSeen(selRefs)

\* the part of C3 that leaves the root namespace's list aside
C3_ImportListsButNamespace ==
  (Done(operation) /\ IsNormal(operation))
    => LET op == operation.value
           root == RootOfKind(schema, operationNode.operation)
           varRefs == VariableRefs(operationNode.variableDefinitions)
           selRefs == SelectionRefs(root, operationNode.selectionSet.selections,
                                    <<>>)
       IN /\ WellFormedImports(op.namespace.args.importTypes)
          /\ op.namespace.args.importTypes = FirstSeen(varRefs)
          /\ WellFormedImports(op.importTypes)
          /\ op.importTypes = FirstSeen(varRefs \o selRefs)

\* a selection set that holds, at some depth, a selection that is not a field
RECURSIVE HasNonField(_)
HasNonField(selections) ==
  \E i \in DOMAIN selections :
    \/ selections[i].kind # "Field"
    \/ /\ selections[i].selectionSet # Null
       /\ HasNonField(selections[i].selectionSet.selections)

\* C6: an operation whose selection sets hold, at any nesting level, a
\* fragment spread or another selection that is not a plain field fails; the
\* selection is never silently dropped.
C6_FragmentFails ==
  (Done(operation) /\ HasNonField(operationNode.selectionSet.selections))
    => ~IsNormal(operation)

\* C7: the root type is the one configured for the operation kind, and an
\* operation whose kind has no root type configured fails instead of
\* returning an Operation record, whatever its selection set holds.
C7_MissingRootFails ==
  (Done(operation) /\ RootOfKind(schema, operationNode.operation) = Null)
    => ~IsNormal(operation)

\* entries mirror selections: one entry per selected field in order, a leaf
\* where there is no nested selection set, a composite otherwise
RECURSIVE Mirrors(_, _, _, _)
Mirrors(root, selections, entries, segs) ==
  LET fs == FieldSelections(selections)
  IN /\ Len(entries) = Len(fs)
     /\ \A i \in DOMAIN fs :
          LET here == Append(segs, fs[i].name.value)
              declared == Descend(root, here)
          IN /\ entries[i].name = fs[i].name.value
             /\ declared # NotFound
             /\ IF fs[i].selectionSet = Null
                THEN /\ "fields" \notin DOMAIN entries[i]
                     /\ entries[i].type
                          = getIOTypeDefinition(declared.type, <<>>, TRUE)
                ELSE /\ "fields" \in DOMAIN entries[i]
                     /\ Mirrors(root, fs[i].selectionSet.selections,
                                entries[i].fields, here)
                     /\ NamesOf(entries[i].type.fields)
                          = NamesOf(entries[i].fields)
                     /\ NamesOf(entries[i].type.fields)
                          = [j \in DOMAIN FieldSelections(
                                     fs[i].selectionSet.selections) |->
                               FieldSelections(fs[i].selectionSet.selections)[j]
                                 .name.value]

\* C8: the projected namespace tree mirrors the selection tree: one entry per
\* selected field in selection order; a leaf exactly where the field has no
\* nested selection set, its type the resolver applied to the still-wrapped
\* declared type at the accumulated path; a composite otherwise, its children
\* the projection of the nested selection under the extended path and its
\* flat field list naming the same child fields in the same order.
C8_NamespaceMirrorsSelection ==
  (Done(operation) /\ IsNormal(operation))
    => Mirrors(RootOfKind(schema, operationNode.operation),
               operationNode.selectionSet.selections,
               operation.value.namespace.fields, <<>>)

\* posts { id ... }: the leaf id under the list field posts is the
\* non-nullable any
C8_Witness ==
  /\ Done(operation) /\ IsNormal(operation)
  /\ schema.query = sQuery
  /\ LET fields == operation.value.namespace.fields
     IN /\ Len(fields) = 2
        /\ fields[1].name = s_posts
        /\ "fields" \in DOMAIN fields[1]
        /\ fields[1].type.outputType
             = NonNull(List(NonNull(Named(sPostedPost))))
        /\ fields[1].fields[1].name = s_id
        /\ fields[1].fields[1].type
             = [definition |-> <<"a","n","y">>, importTypes |-> <<>>]
        /\ "fields" \in DOMAIN fields[1].fields[2]

\* every composite entry, at any depth, aggregates the custom types of all
\* the leaves below it
RECURSIVE CompositesComplete(_, _, _, _)
CompositesComplete(root, selections, entries, segs) ==
  LET fs == FieldSelections(selections)
  IN \A i \in DOMAIN fs :
       fs[i].selectionSet # Null
         => LET here == Append(segs, fs[i].name.value)
                sub == fs[i].selectionSet.selections
            IN /\ Range(FirstSeen(SelectionRefs(root, sub, here)))
                    \subseteq Range(getImportTypes(entries[i]))
               /\ CompositesComplete(root, sub, entries[i].fields, here)

\* C9: import aggregation is complete: getImportTypes of a composite entry
\* contains every custom type named by a leaf at any depth below it, and the
\* operation's importTypes contains every custom type named by a variable
\* definition's type or by a projected leaf's type at any depth.
C9_ImportsComplete ==
  (Done(operation) /\ IsNormal(operation))
    => LET root == RootOfKind(schema, operationNode.operation)
           sels == operationNode.selectionSet.selections
       IN /\ Len(operation.value.namespace.fields) = Len(FieldSelections(sels))
          /\ CompositesComplete(root, sels, operation.value.namespace.fields,
                                <<>>)
          /\ Range(FirstSeen(VariableRefs(operationNode.variableDefinitions)))
               \subseteq Range(operation.value.importTypes)
          /\ Range(FirstSeen(SelectionRefs(root, sels, <<>>)))
               \subseteq Range(operation.value.importTypes)

\* a variable of a custom type, a leaf of that type two levels down and a
\* leaf of another custom type: every one of them is imported
C9_Witness ==
  /\ Done(operation) /\ IsNormal(operation)
  /\ schema.query = sQuery
  /\ Len(operationNode.variableDefinitions) = 2
  /\ operation.value.namespace.args.importTypes = <<sPostsInput, sDateTime>>
  /\ Len(operation.value.namespace.fields) = 1
  /\ operation.value.namespace.fields[1].name = s_posts
  /\ getImportTypes(operation.value.namespace.fields[1]) = <<sDateTime>>
  /\ operation.value.importTypes = <<sPostsInput, sDateTime>>

\* a text with its first character in upper case
Capitalized(text) ==
  IF Len(text) = 0 THEN text ELSE <<toUpperCase(text[1])>> \o Tail(text)

\* the positions from i on at which a non-alphanumeric character starts a
\* match of the pattern of toCamelCase; a match takes the next character too
RECURSIVE MatchStarts(_, _)
MatchStarts(text, i) ==
  IF i > Len(text) THEN {}
  ELSE IF IsAlnum(text[i]) THEN MatchStarts(text, i + 1)
  ELSE {i} \cup MatchStarts(text, i + 2)

\* camel case: every non-alphanumeric character that starts a match is
\* dropped, the character it is followed by is put in upper case, and so is
\* the first character of what is left
CamelCased(text) ==
  LET starts == MatchStarts(text, 1)
      kept == SelectSeq([i \in 1..Len(text) |-> i], LAMBDA i : i \notin starts)
  IN Capitalized([j \in DOMAIN kept |->
                    IF kept[j] - 1 \in starts THEN toUpperCase(text[kept[j]])
                    ELSE text[kept[j]]])

\* the flat selection of an operation: one entry per selected field, in
\* selection order, each typed by the dotted path into the namespace nsp
PointsInto(selection, selections, nsp) ==
  /\ NamesOf(selection.fields)
       = [i \in DOMAIN FieldSelections(selections) |->
            FieldSelections(selections)[i].name.value]
  /\ \A i \in DOMAIN selection.fields :
       selection.fields[i].type = nsp \o <<".">> \o selection.fields[i].name

Imported(type, importTypes) ==
  IsCustom(LeafOf(type).name) => Includes(importTypes, LeafOf(type).name)

\* the Arguments record of a field: the declared arguments in declared order,
\* each with the type the resolver gives its type reference
ListsArguments(argsRecord, declared) ==
  /\ argsRecord # Null
  /\ argsRecord.name = <<"A","r","g","u","m","e","n","t","s">>
  /\ NamesOf(argsRecord.fields) = NamesOf(declared)
  /\ \A j \in DOMAIN declared :
       argsRecord.fields[j].type
         = getIOTypeDefinition(declared[j].type, <<>>, TRUE).definition

\* C14: entity extraction attaches arguments only to object and interface
\* fields.  For every field of an object or interface type the namespace
\* entry carries an Arguments record listing the field's arguments in
\* declared order, each with its resolved type, and every custom type named
\* by the field's type or by one of its arguments' types is in the entity's
\* import list; for every field of an input-object type args is null.
C14_ArgumentsOnlyOnOutputFields ==
  IsEntity(entity)
    => LET nsp == entity.namespace.fields
           declared == namedType.fields
       IN /\ Len(nsp) = Len(declared)
          /\ IF isObjectType(namedType) \/ isInterfaceType(namedType)
             THEN \A i \in DOMAIN declared :
                    /\ ListsArguments(nsp[i].args, declared[i].args)
                    /\ Imported(declared[i].type, entity.importTypes)
                    /\ \A j \in DOMAIN declared[i].args :
                         Imported(declared[i].args[j].type, entity.importTypes)
             ELSE \A i \in DOMAIN declared : nsp[i].args = Null

\* an object type whose first field takes the arguments input: PostsInput and
\* data: [PostData!], neither of them named by a field's type
C14_Witness ==
  /\ IsEntity(entity)
  /\ isObjectType(namedType)
  /\ Len(namedType.fields) = 2
  /\ NamesOf(entity.namespace.fields[1].args.fields) = <<s_input, s_data>>
  /\ entity.namespace.fields[2].args.fields = <<>>
  /\ entity.importTypes = <<sDateTime, sPostsInput, sPostData, sPostAuthor>>

\* an input-object type of two fields, as extracted
C14_WitnessInput ==
  /\ IsEntity(entity)
  /\ namedType.class = "GraphQLInputObjectType"
  /\ Len(entity.namespace.fields) = 2
  /\ entity.namespace.fields[1].args = Null
  /\ entity.namespace.fields[2].args = Null
  /\ entity.importTypes = <<sPostsInput, sDateTime>>

(***************************************************************************)
(* Top-level declaration ordering (misc.ts 201-225).                       *)
(***************************************************************************)
weights ==
  [ScalarTypeDefinition |-> 0,
   EnumTypeDefinition |-> 1,
   InterfaceTypeDefinition |-> 2,
   InputObjectTypeDefinition |-> 3,
   UnionTypeDefinition |-> 4,
   ObjectTypeDefinition |-> 5]

\* the comparator with the two early returns exchanged
getSorter_MissingLast(disp, a, b) ==
  IF a.astNode # Null \/ b.astNode # Null
  THEN IF a.astNode = Null THEN 1
       ELSE IF b.astNode = Null THEN -1
       ELSE IF disp = "as-is"
            THEN a.astNode.loc.start - b.astNode.loc.start
            ELSE weights[a.astNode.kind] - weights[b.astNode.kind]
  ELSE 0

\* getSorter(display)(a, b): the comparator getSorter returns, applied
getSorter(disp, a, b) ==
  IF a.astNode # Null \/ b.astNode # Null
  THEN IF a.astNode = Null THEN -1
       ELSE IF b.astNode = Null THEN 1
       ELSE IF disp = "as-is"
            THEN a.astNode.loc.start - b.astNode.loc.start
            ELSE weights[a.astNode.kind] - weights[b.astNode.kind]
  ELSE 0

\* Array.prototype.sort with the comparator: a stable insertion sort, x put
\* before the first element it compares below
RECURSIVE InsertSorted(_, _, _)
InsertSorted(x, list, disp) ==
  IF Len(list) = 0 THEN <<x>>
  ELSE IF getSorter(disp, x, Head(list)) < 0 THEN <<x>> \o list
  ELSE <<Head(list)>> \o InsertSorted(x, Tail(list), disp)

RECURSIVE SortWith(_, _)
SortWith(list, disp) ==
  IF Len(list) = 0 THEN <<>>
  ELSE InsertSorted(list[Len(list)],
                    SortWith(SubSeq(list, 1, Len(list) - 1), disp), disp)

(***************************************************************************)
(* Specification of the sorter: a display type and a list of named types,  *)
(* with and without a declaration node.                                    *)
(***************************************************************************)
DefinitionKinds == DOMAIN weights

DisplayTypes == {"as-is", "default"}

SortablePool ==
  {[astNode |-> Null]}
    \cup {[astNode |-> AstNode(k, st)] : k \in DefinitionKinds,
                                         st \in 0..MaxStart}

InitSorter ==
  /\ display \in DisplayTypes
  /\ types \in Seqs0UpTo(SortablePool, MaxTypes)
  /\ sorted = Pending
  /\ ResolverIdle /\ NavigatorIdle /\ ExtractorIdle /\ ProjectorIdle
  /\ BatchIdle

\* types.sort(getSorter(display))
SortTypes ==
  /\ sorted = Pending
  /\ sorted' = [types |-> SortWith(types, display)]
  /\ UNCHANGED <<display, types, resolverVars, navigatorVars, extractorVars,
                 projectorVars, batchVars>>

NextSorter == SortTypes

SpecSorter == InitSorter /\ [][NextSorter]_vars

(***************************************************************************)
(* Properties of the sorter.                                               *)
(***************************************************************************)
Sign(n) == IF n < 0 THEN -1 ELSE IF n > 0 THEN 1 ELSE 0

\* the fixed category order scalar < enum < interface < input-object < union
\* < object
CategoryOrder ==
  <<"ScalarTypeDefinition", "EnumTypeDefinition", "InterfaceTypeDefinition",
    "InputObjectTypeDefinition", "UnionTypeDefinition", "ObjectTypeDefinition">>

CategoryRank(kind) == CHOOSE i \in DOMAIN CategoryOrder : CategoryOrder[i] = kind

\* a must not come after b in the order the claim describes
NotAfter(disp, a, b) ==
  IF a.astNode = Null THEN TRUE
  ELSE IF b.astNode = Null THEN FALSE
  ELSE IF disp = "as-is" THEN a.astNode.loc.start <= b.astNode.loc.start
  ELSE CategoryRank(a.astNode.kind) <= CategoryRank(b.astNode.kind)

\* the number of occurrences of x in a list
Count(list, x) == Cardinality({i \in DOMAIN list : list[i] = x})

\* C10: the comparator puts every type without a declaration node before
\* every type with one, orders two types with one by source start position
\* under 'as-is' and by the fixed category weight otherwise, is antisymmetric
\* and transitive, and sorting a list with it gives that order.
C10_SorterOrders ==
  display \in DisplayTypes
    => /\ \A a, b \in Range(types) :
            /\ Sign(getSorter(display, a, b)) = -Sign(getSorter(display, b, a))
            /\ (a.astNode = Null /\ b.astNode # Null)
                 => getSorter(display, a, b) < 0
            /\ (a.astNode # Null /\ b.astNode # Null /\ display = "as-is")
                 => Sign(getSorter(display, a, b))
                      = Sign(a.astNode.loc.start - b.astNode.loc.start)
            /\ (a.astNode # Null /\ b.astNode # Null /\ display # "as-is")
                 => Sign(getSorter(display, a, b))
                      = Sign(CategoryRank(a.astNode.kind)
                               - CategoryRank(b.astNode.kind))
       /\ \A a, b, c \in Range(types) :
            (getSorter(display, a, b) <= 0 /\ getSorter(display, b, c) <= 0)
              => getSorter(display, a, c) <= 0
       /\ sorted # Pending
            => /\ Len(sorted.types) = Len(types)
               /\ \A x \in Range(types) :
                    Count(sorted.types, x) = Count(types, x)
               /\ \A i, j \in DOMAIN sorted.types :
                    i < j => NotAfter(display, sorted.types[i], sorted.types[j])

\* an object, a type without declaration node and a scalar, sorted by weight
C10_Witness ==
  /\ display = "default"
  /\ types = << [astNode |-> AstNode("ObjectTypeDefinition", 0)],
                [astNode |-> Null],
                [astNode |-> AstNode("ScalarTypeDefinition", 1)] >>
  /\ sorted # Pending
  /\ sorted.types = << [astNode |-> Null],
                       [astNode |-> AstNode("ScalarTypeDefinition", 1)],
                       [astNode |-> AstNode("ObjectTypeDefinition", 0)] >>

(***************************************************************************)
(* A batch: several operations and named types handled in one run.         *)
(* Arrays are objects: a record holds the address of an array, and the     *)
(* heap gives the contents at each address, so that a push into an array   *)
(* is seen through every record that holds its address.  The calls are     *)
(* those of the sections above, with every array they create allocated on  *)
(* the heap.                                                               *)
(***************************************************************************)
\* the array literal []: a new, empty array at the next free address
NewArray(h) == [heap |-> Append(h, <<>>), ref |-> Len(h) + 1]

\* the default parameter of the resolvers evaluated once and kept, so that
\* every call that leaves the argument out is handed the same array
DefaultImportTypes_Once(h) ==
  IF Len(h) = 0 THEN NewArray(h) ELSE [heap |-> h, ref |-> 1]

\* the default parameter `importTypes: string[] = []` of the resolvers: the
\* expression is evaluated at every call that leaves the argument out
DefaultImportTypes(h) == NewArray(h)

\* list.forEach(t => { if (!array.includes(t)) array.push(t) }) on the array
\* at address ref
PushEach(h, ref, list) == [h EXCEPT ![ref] = MergeImports(h[ref], list, 1)]

\* getTypeNodeDefinition(node): the pushes go to the array of the default
\* parameter, and the result holds that array
getTypeNodeDefinitionOnHeap(h, node) ==
  Bind(DefaultImportTypes(h), LAMBDA d :
    Bind(getTypeNodeDefinition(node, d.heap[d.ref], TRUE), LAMBDA r :
      [heap |-> [d.heap EXCEPT ![d.ref] = r.importTypes],
       definition |-> r.definition,
       importTypes |-> d.ref]))

\* getIOTypeDefinition(type), likewise
getIOTypeDefinitionOnHeap(h, type) ==
  Bind(DefaultImportTypes(h), LAMBDA d :
    Bind(getIOTypeDefinition(type, d.heap[d.ref], TRUE), LAMBDA r :
      [heap |-> [d.heap EXCEPT ![d.ref] = r.importTypes],
       definition |-> r.definition,
       importTypes |-> d.ref]))

\* nodes.reduce(...) of parseOperationVariableDefinitions; acc.importTypes is
\* the address of the accumulator's array
RECURSIVE VariablesReduceOnHeap(_, _, _, _)
VariablesReduceOnHeap(h, nodes, i, acc) ==
  IF i > Len(nodes) THEN [heap |-> h, value |-> acc]
  ELSE
    Bind(getTypeNodeDefinitionOnHeap(h, nodes[i].type), LAMBDA def :
      VariablesReduceOnHeap(
        PushEach(def.heap, acc.importTypes, def.heap[def.importTypes]),
        nodes, i + 1,
        [name |-> acc.name,
         fields |-> Append(acc.fields, [name |-> nodes[i].variable.name.value,
                                        type |-> def.definition]),
         importTypes |-> acc.importTypes]))

parseOperationVariableDefinitionsOnHeap(h, nodes) ==
  Bind(NewArray(h), LAMBDA a :
    VariablesReduceOnHeap(a.heap, nodes, 1,
                          [name |-> EmptyArguments.name, fields |-> <<>>,
                           importTypes |-> a.ref]))

\* selectionSetToNamespaceFields and fieldNodeToNamespaceField on the heap:
\* each gives the heap it leaves and the completion of the call
RECURSIVE NamespaceFieldsReduceOnHeap(_, _, _, _, _, _)
RECURSIVE fieldNodeToNamespaceFieldOnHeap(_, _, _, _)

fieldNodeToNamespaceFieldOnHeap(h, node, rootNode, prevPath) ==
  Bind(IF Len(prevPath) > 0 THEN prevPath \o <<".">> \o node.name.value
       ELSE node.name.value, LAMBDA p :
    Bind(getIn(rootNode, p), LAMBDA found :
      IF IsThrow(found) THEN [heap |-> h, result |-> Throw(found)]
      ELSE IF node.selectionSet # Null
      THEN Bind(NamespaceFieldsReduceOnHeap(h, node.selectionSet.selections, 1,
                                            <<>>, rootNode, p),
                LAMBDA children :
             IF ~IsNormal(children.result) THEN children
             ELSE [heap |-> children.heap,
                   result |-> Normal(
                     [name |-> node.name.value,
                      type |-> [name |-> node.name.value,
                                fields |-> ObjectFieldsOfSelections(
                                             node.selectionSet.selections, 1,
                                             node.name.value),
                                outputType |-> found.type],
                      fields |-> children.result.value])])
      ELSE Bind(getIOTypeDefinitionOnHeap(h, found.type), LAMBDA def :
             [heap |-> def.heap,
              result |-> Normal(
                [name |-> node.name.value,
                 type |-> [definition |-> def.definition,
                           importTypes |-> def.importTypes]])])))

NamespaceFieldsReduceOnHeap(h, selections, i, acc, rootNode, p) ==
  IF i > Len(selections) THEN [heap |-> h, result |-> Normal(acc)]
  ELSE IF selections[i].kind = "Field"
       THEN Bind(fieldNodeToNamespaceFieldOnHeap(h, selections[i], rootNode, p),
                 LAMBDA f :
                   IF ~IsNormal(f.result) THEN f
                   ELSE NamespaceFieldsReduceOnHeap(
                          f.heap, selections, i + 1,
                          Append(acc, f.result.value), rootNode, p))
       ELSE NamespaceFieldsReduceOnHeap(h, selections, i + 1, acc, rootNode, p)

\* the namespace fields with the contents of every array they hold
RECURSIVE ReadFields(_, _)
ReadFields(fields, h) ==
  [i \in DOMAIN fields |->
     IF "fields" \in DOMAIN fields[i]
     THEN [fields[i] EXCEPT !.fields = ReadFields(@, h)]
     ELSE [fields[i] EXCEPT !.type.importTypes = h[@]]]

\* selectionSetToRootNamespace on the heap: the list flatMap returns is a new
\* array, filled from what the fields' arrays hold at the time of the call
selectionSetToRootNamespaceOnHeap(h, selectionSet, compiledName, args, rootNode) ==
  Bind(NamespaceFieldsReduceOnHeap(h, selectionSet.selections, 1, <<>>,
                                   rootNode, <<>>), LAMBDA nspFields :
    IF ~IsNormal(nspFields.result) THEN nspFields
    ELSE Bind(NewArray(nspFields.heap), LAMBDA a :
           [heap |-> [a.heap EXCEPT ![a.ref] =
                        FlatMapImportTypes(
                          ReadFields(nspFields.result.value, a.heap), 1)],
            result |-> Normal([name |-> compiledName,
                               fields |-> nspFields.result.value,
                               args |-> args,
                               importTypes |-> a.ref])]))

\* an Operation with the contents of every array it holds
ReadOperation(o, h) ==
  [o EXCEPT !.importTypes = h[@],
            !.namespace.importTypes = h[@],
            !.namespace.args.importTypes = h[@],
            !.namespace.fields = ReadFields(@, h)]

\* args.reduce(...) of parseObjectOrInterfaceType on the heap
RECURSIVE ArgsReduceOnHeap(_, _, _, _)
ArgsReduceOnHeap(h, args, i, argAcc) ==
  IF i > Len(args) THEN [heap |-> h, value |-> argAcc]
  ELSE
    Bind(getIOTypeDefinitionOnHeap(h, args[i].type), LAMBDA def :
      ArgsReduceOnHeap(
        PushEach(def.heap, argAcc.importTypes, def.heap[def.importTypes]),
        args, i + 1,
        [name |-> argAcc.name,
         fields |-> Append(argAcc.fields,
                           [name |-> args[i].name,
                            description |-> args[i].description,
                            type |-> def.definition]),
         importTypes |-> argAcc.importTypes]))

\* the entity with one more field pushed to its flat list and its namespace
PushField(acc, f, formattedName, args, definition) ==
  [__type |-> acc.__type,
   fields |-> [name |-> acc.fields.name,
               fields |-> Append(acc.fields.fields,
                            [name |-> f.name,
                             description |-> f.description,
                             type |-> formattedName \o <<".">> \o f.name])],
   namespace |-> [name |-> acc.namespace.name,
                  description |-> acc.namespace.description,
                  fields |-> Append(acc.namespace.fields,
                               [name |-> f.name,
                                description |-> f.description,
                                args |-> args,
                                type |-> definition])],
   importTypes |-> acc.importTypes]

\* the reducer of parseObjectOrInterfaceType on the heap: the Arguments
\* record is an object literal of the callback, made anew for each field
ObjectFieldStepOnHeap(h, acc, f, formattedName) ==
  Bind(NewArray(h), LAMBDA a :
    Bind(ArgsReduceOnHeap(a.heap, f.args, 1,
                          [name |-> EmptyArguments.name, fields |-> <<>>,
                           importTypes |-> a.ref]),
         LAMBDA preparedArguments :
      Bind(getIOTypeDefinitionOnHeap(preparedArguments.heap, f.type),
           LAMBDA def :
        [heap |-> PushEach(def.heap, acc.importTypes,
                           def.heap[def.importTypes]
                             \o def.heap[preparedArguments.value.importTypes]),
         value |-> PushField(acc, f, formattedName, preparedArguments.value,
                             def.definition)])))

\* the reducer of parseInputObjectType on the heap
InputFieldStepOnHeap(h, acc, f, formattedName) ==
  Bind(getIOTypeDefinitionOnHeap(h, f.type), LAMBDA def :
    [heap |-> PushEach(def.heap, acc.importTypes, def.heap[def.importTypes]),
     value |-> PushField(acc, f, formattedName, Null, def.definition)])

\* an Entity with the contents of every array it holds
ReadEntity(e, h) ==
  [e EXCEPT !.importTypes = h[@],
            !.namespace.fields =
               [i \in DOMAIN @ |->
                  IF @[i].args = Null THEN @[i]
                  ELSE [@[i] EXCEPT !.args.importTypes = h[@]]]]

(***************************************************************************)
(* Specification of the batch: up to MaxJobs jobs, each an operation       *)
(* handed to parseOperationDefinitionNode or a named type handed to        *)
(* parseNamedType.  The calls advance in any order, one step at a time: an *)
(* operation first parses its variables and then projects its selection,   *)
(* an entity takes one field at a time.                                    *)
(***************************************************************************)
SampleSchema ==
  [query |-> sQuery, mutation |-> sMutation, subscription |-> sSubscription]

OperationJob(sch, kind, name, variableDefinitions, selections) ==
  [kind |-> "operation", schema |-> sch,
   node |-> [kind |-> "OperationDefinition", operation |-> kind,
             name |-> [value |-> name],
             variableDefinitions |-> variableDefinitions,
             selectionSet |-> SelectionSetNode(selections)]]

TypeJob(type) == [kind |-> "type", type |-> type]

\* post { createdAt id }
PostSelection ==
  FieldNode(s_post, SelectionSetNode(
    << FieldNode(s_createdAt, Null), FieldNode(s_id, Null) >>))

SinceVariable ==
  VariableDefinitionNode(s_since, ListTypeNode(NamedTypeNode(sDateTime)))

JobPool ==
  { \* query get($since: [DateTime]) { post { createdAt id } }
    OperationJob(SampleSchema, s_query, s_get, <<SinceVariable>>,
                 <<PostSelection>>),
    \* query get($since: [DateTime]) { post { createdAt id } when }: no field
    \* when on Query
    OperationJob(SampleSchema, s_query, s_get, <<SinceVariable>>,
                 <<PostSelection, FieldNode(s_when, Null)>>),
    TypeJob(TypeObject(sQuery)),
    TypeJob(TypeObject(sPostData)),
    TypeJob(TypeObject(sAnyPost)) }

InitBatch ==
  /\ jobs \in UNION {[1..n -> JobPool] : n \in 1..MaxJobs}
  /\ pc = [k \in DOMAIN jobs |-> "start"]
  /\ frame = [k \in DOMAIN jobs |-> Null]
  /\ records = [k \in DOMAIN jobs |-> Pending]
  /\ heap = <<>>
  /\ ResolverIdle /\ NavigatorIdle /\ ExtractorIdle /\ ProjectorIdle
  /\ SorterIdle

\* what one step of a call leaves: the heap, the call's local variables,
\* where the call stands and, once it returned or threw, its completion
Goes(h, locals, at) ==
  [heap |-> h, frame |-> locals, pc |-> at, completion |-> Pending]
Ends(h, locals, completion) ==
  [heap |-> h, frame |-> locals,
   pc |-> IF IsNormal(completion) THEN "done" ELSE "failed",
   completion |-> completion]

\* parseOperationDefinitionNode up to addImportTypes(args.importTypes)
EnterOperationStep(h, job) ==
  IF toCamelCaseThrows(job.node.name.value) THEN Ends(h, Null, Throw(TypeError))
  ELSE
    Bind(NewArray(h), LAMBDA importTypes :
      Bind(parseOperationVariableDefinitionsOnHeap(
             importTypes.heap, job.node.variableDefinitions), LAMBDA args :
        Goes(PushEach(args.heap, importTypes.ref,
                      args.heap[args.value.importTypes]),
             [importTypes |-> importTypes.ref, args |-> args.value],
             "namespace")))

\* parseOperationDefinitionNode from selectionSetToRootNamespace to the return
ProjectOperationStep(h, job, locals) ==
  Bind(getCompiledOperationName(job.node.name.value, job.node.operation),
       LAMBDA operationName :
  Bind(getCompiledOperationNamespaceName(job.node.name.value,
                                         job.node.operation),
       LAMBDA operationNamespaceName :
  Bind(selectionSetToRootNamespaceOnHeap(
         h, job.node.selectionSet, operationNamespaceName, locals.args,
         getOperationRootNode(job.schema, job.node.operation)),
       LAMBDA namespace :
    IF ~IsNormal(namespace.result)
    THEN Ends(namespace.heap, locals, namespace.result)
    ELSE Ends(PushEach(namespace.heap, locals.importTypes,
                       namespace.heap[namespace.result.value.importTypes]),
              locals,
              Normal([__type |-> "operation",
                      name |-> operationName,
                      selection |->
                        [name |-> operationName,
                         fields |-> selectionSetToObjectFields(
                                      job.node.selectionSet,
                                      operationNamespaceName)],
                      namespace |-> namespace.result.value,
                      importTypes |-> locals.importTypes])))))

\* whether parseNamedType hands the type to one of the two entity parsers
IsEntityType(type) ==
  /\ type.astNode # Null
  /\ ~isScalarType(type) /\ ~isUnionType(type) /\ ~isEnumType(type)

\* parseNamedType up to the first field of an entity; a type without fields
\* and a type of another category are done at once
EnterTypeStep(h, job) ==
  IF ~IsEntityType(job.type) THEN Ends(h, Null, Normal(parseNamedType(job.type)))
  ELSE IF toCamelCaseThrows(job.type.name) THEN Ends(h, Null, Throw(TypeError))
  ELSE
    Bind(NewArray(h), LAMBDA importTypes :
      Bind([EmptyEntity(toCamelCase(job.type.name), job.type.description)
              EXCEPT !.importTypes = importTypes.ref], LAMBDA acc :
        IF Len(job.type.fields) = 0
        THEN Ends(importTypes.heap, Null, Normal(acc))
        ELSE Goes(importTypes.heap, [acc |-> acc, next |-> 1], "fields")))

\* one turn of the reduce of parseObjectOrInterfaceType or
\* parseInputObjectType; after the last field the entity is returned
ExtractFieldStep(h, job, locals) ==
  Bind(IF isObjectType(job.type) \/ isInterfaceType(job.type)
       THEN ObjectFieldStepOnHeap(h, locals.acc, job.type.fields[locals.next],
                                  locals.acc.namespace.name)
       ELSE InputFieldStepOnHeap(h, locals.acc, job.type.fields[locals.next],
                                 locals.acc.namespace.name),
       LAMBDA step :
         IF locals.next = Len(job.type.fields)
         THEN Ends(step.heap, [acc |-> step.value, next |-> locals.next + 1],
                   Normal(step.value))
         ELSE Goes(step.heap, [acc |-> step.value, next |-> locals.next + 1],
                   "fields"))

\* job k takes the step whose outcome is out
Take(k, out) ==
  /\ heap' = out.heap
  /\ frame' = [frame EXCEPT ![k] = out.frame]
  /\ pc' = [pc EXCEPT ![k] = out.pc]
  /\ records' = [records EXCEPT ![k] = out.completion]
  /\ UNCHANGED <<jobs, resolverVars, navigatorVars, extractorVars,
                 projectorVars, sorterVars>>

EnterOperation(k) ==
  /\ pc[k] = "start"
  /\ jobs[k].kind = "operation"
  /\ Take(k, EnterOperationStep(heap, jobs[k]))

ProjectOperation(k) ==
  /\ pc[k] = "namespace"
  /\ Take(k, ProjectOperationStep(heap, jobs[k], frame[k]))

EnterType(k) ==
  /\ pc[k] = "start"
  /\ jobs[k].kind = "type"
  /\ Take(k, EnterTypeStep(heap, jobs[k]))

ExtractField(k) ==
  /\ pc[k] = "fields"
  /\ Take(k, ExtractFieldStep(heap, jobs[k], frame[k]))

NextBatch ==
  \E k \in DOMAIN jobs :
    \/ EnterOperation(k)
    \/ ProjectOperation(k)
    \/ EnterType(k)
    \/ ExtractField(k)

SpecBatch == InitBatch /\ [][NextBatch]_vars

(***************************************************************************)
(* Properties of the batch.                                                *)
(***************************************************************************)
\* the completion of the call made for a job on its own
Alone(job) ==
  IF job.kind = "operation"
  THEN parseOperationDefinitionNode(job.node, job.schema)
  ELSE Bind(parseNamedType(job.type), LAMBDA r :
         IF IsThrow(r) THEN Throw(r) ELSE Normal(r))

\* the completion of a job as a reader finds it: every array it holds read
\* from the heap
ReadRecord(job, completion, h) ==
  IF ~IsNormal(completion) THEN completion
  ELSE IF job.kind = "operation"
       THEN Normal(ReadOperation(completion.value, h))
  ELSE IF IsEntityType(job.type) THEN Normal(ReadEntity(completion.value, h))
  ELSE completion

\* C12: no import accumulator is shared between sibling fields, sibling
\* arguments or sibling operations: at every moment of a batch, whatever the
\* order and interleaving of the calls and whichever of them failed, the
\* record of each finished job reads as the record of that job handled alone.
C12_NoSharedAccumulator ==
  \A k \in DOMAIN jobs :
    records[k] # Pending
      => ReadRecord(jobs[k], records[k], heap) = Alone(jobs[k])

\* two operations that both need DateTime: the second was entered before the
\* first projected its selection and failed after the first had returned
C12_Witness ==
  /\ Len(jobs) = 2
  /\ jobs[1].kind = "operation" /\ jobs[2].kind = "operation"
  /\ pc[1] = "done" /\ pc[2] = "failed"
  /\ frame[2].importTypes < records[1].value.namespace.importTypes
  /\ Includes(heap[records[1].value.importTypes], sDateTime)
  /\ Includes(heap[frame[2].importTypes], sDateTime)
  /\ Len(heap) > records[1].value.namespace.importTypes

\* an entity and an operation of one batch, the operation entered between the
\* two fields of the entity, both finished, each with its own imports
C12_WitnessEntity ==
  /\ Len(jobs) = 2
  /\ jobs[1] = TypeJob(TypeObject(sQuery)) /\ jobs[2].kind = "operation"
  /\ pc[1] = "done" /\ pc[2] = "done"
  /\ records[1].value.importTypes < frame[2].importTypes
  /\ frame[2].importTypes
       < records[1].value.namespace.fields[2].args.importTypes
  /\ heap[records[1].value.importTypes] = <<sPostedPost, sPostsInput>>
  /\ heap[records[2].value.importTypes] = <<sDateTime>>

====
